---- MODULE Spec2Model ----
(***************************************************************************)
(* State-machine model of src/app/page.tsx, the App component of the 3D RL *)
(* policy simulator: its React state, the agent_0 mesh kept in the three.js*)
(* scene, the pending episode-restart timeouts, and one action per event   *)
(* handler.  Every action is the handler followed by React's re-render and *)
(* the effects that re-render triggers (the scene/animate effect and the   *)
(* environment effect), because those run before the next event is served. *)
(* The Dashboard component of the same file is modelled by the values it   *)
(* derives from its rewardHistory prop.                                    *)
(* Rewards are kept in hundredths: -0.01 is -1, -1.0 is -100, 10.0 is 1000.*)
(***************************************************************************)
EXTENDS Integers, Sequences, FiniteSets, TLC

VARIABLES
    threeLoaded,          \* useState(false), line 152
    isRunning,            \* useState(false), line 154
    currentStep,          \* useState(0), line 155
    simulationSpeed,      \* useState(1), line 156
    selectedEnvironment,  \* useState("gridworld"), line 157
    policy,               \* useState(null), line 158
    metrics,              \* useState({totalReward: 0, steps: 0}), line 159
    showQValues,          \* useState(true), line 160
    showDashboard,        \* useState(false), line 162
    rewardHistory,        \* useState([]), line 163
    stepsPerEpisode,      \* useState([]), line 164
    currentEpisode,       \* useState(1), line 165
    trajectory,           \* useState([]), line 166
    agent,                \* position of the mesh "agent_0" of sceneRef.current, <<>> when the scene has none
    timers,               \* the setTimeout callbacks of line 433 not yet fired, oldest first
    call                  \* history variable: the handler served last, how it ended, the file text it read, metrics.steps before it,
                          \* the value Math.random had for it and the action index it took (-1 when it took none)

vars == <<threeLoaded, isRunning, currentStep, simulationSpeed, selectedEnvironment,
          policy, metrics, showQValues, showDashboard, rewardHistory, stepsPerEpisode,
          currentEpisode, trajectory, agent, timers, call>>

Min(a, b) == IF a < b THEN a ELSE b
Max(a, b) == IF a > b THEN a ELSE b

(***************************************************************************)
(* JSON values, as far as the handlers look at them.                       *)
(***************************************************************************)
Undefined == [k |-> "undefined"]
Null == [k |-> "null"]
Str(s) == [k |-> "string", s |-> s]
Num(n) == [k |-> "number", n |-> n]
Arr(a) == [k |-> "array", a |-> a]
Obj(t, v) == [k |-> "object", type |-> t, values |-> v]

\* JavaScript truthiness of a JSON value
Truthy(v) ==
    CASE v.k = "undefined" -> FALSE
      [] v.k = "null" -> FALSE
      [] v.k = "string" -> v.s # ""
      [] v.k = "number" -> v.n # 0
      [] OTHER -> TRUE

\* Array.isArray
IsArray(v) == v.k = "array"

NoPolicy == Null
NoAgent == <<>>

(***************************************************************************)
(* The environment catalog, lines 168-211.                                 *)
(***************************************************************************)
EnvironmentIds == {"gridworld", "maze", "multiagent"}

environments(id) ==
    CASE id = "gridworld" ->
           [size |-> [x |-> 4, y |-> 4],
            obstacles |-> {<<1, 1>>, <<2, 2>>},
            goals |-> {<<3, 3>>},
            start |-> << <<0, 0>> >>]
      [] id = "maze" ->
           [size |-> [x |-> 6, y |-> 6],
            obstacles |-> {<<1, 0>>, <<1, 1>>, <<1, 2>>, <<3, 3>>, <<3, 4>>, <<4, 4>>},
            goals |-> {<<5, 5>>},
            start |-> << <<0, 0>> >>]
      [] id = "multiagent" ->
           [size |-> [x |-> 8, y |-> 8],
            obstacles |-> {<<2, 2>>, <<3, 3>>, <<4, 4>>, <<5, 5>>},
            goals |-> {<<0, 7>>, <<7, 0>>},
            start |-> << <<0, 0>>, <<7, 7>> >>]

\* the action table of simulationStep, lines 404-409, indexed from 0
actions(i) ==
    CASE i = 0 -> <<0, -1>>
      [] i = 1 -> <<0, 1>>
      [] i = 2 -> <<-1, 0>>
      [] i = 3 -> <<1, 0>>

\* the step count of the test metrics.steps > 100, line 430
StepCap == 100

\* the values Math.floor(Math.random() * 4) can take, line 402
RandomActions == 0 .. 3

Init ==
    /\ threeLoaded = FALSE
    /\ isRunning = FALSE
    /\ currentStep = 0
    /\ simulationSpeed = 1
    /\ selectedEnvironment = "gridworld"
    /\ policy = NoPolicy
    /\ metrics = [totalReward |-> 0, steps |-> 0]
    /\ showQValues = TRUE
    /\ showDashboard = FALSE
    /\ rewardHistory = <<>>
    /\ stepsPerEpisode = <<>>
    /\ currentEpisode = 1
    /\ trajectory = <<>>
    /\ agent = NoAgent
    /\ timers = <<>>
    /\ call = [op |-> "mount", result |-> "ok", arg |-> "", stepsBefore |-> 0,
               rnd |-> -1, actionIndex |-> -1]

(***************************************************************************)
(* The component's state as one record, so that a handler is an operator   *)
(* from state to state and a re-render can compare two states.             *)
(***************************************************************************)
Cur ==
    [threeLoaded |-> threeLoaded, isRunning |-> isRunning, currentStep |-> currentStep,
     simulationSpeed |-> simulationSpeed, selectedEnvironment |-> selectedEnvironment,
     policy |-> policy, metrics |-> metrics, showQValues |-> showQValues,
     showDashboard |-> showDashboard,
     rewardHistory |-> rewardHistory, stepsPerEpisode |-> stepsPerEpisode,
     currentEpisode |-> currentEpisode, trajectory |-> trajectory,
     agent |-> agent, timers |-> timers]

Becomes(s) ==
    /\ threeLoaded' = s.threeLoaded
    /\ isRunning' = s.isRunning
    /\ currentStep' = s.currentStep
    /\ simulationSpeed' = s.simulationSpeed
    /\ selectedEnvironment' = s.selectedEnvironment
    /\ policy' = s.policy
    /\ metrics' = s.metrics
    /\ showQValues' = s.showQValues
    /\ showDashboard' = s.showDashboard
    /\ rewardHistory' = s.rewardHistory
    /\ stepsPerEpisode' = s.stepsPerEpisode
    /\ currentEpisode' = s.currentEpisode
    /\ trajectory' = s.trajectory
    /\ agent' = s.agent
    /\ timers' = s.timers

(***************************************************************************)
(* initializeSimulation, lines 363-388.  env is the selectedEnvironment of *)
(* the render that made the closure.  Only agent_0 is kept: the second     *)
(* agent of the multi-agent arena is never read by any handler.            *)
(***************************************************************************)
\* initializeSimulation without the setCurrentStep(0) and setMetrics of lines 384-385
initializeSimulationKeepsCounters(s, env) ==
    IF ~s.threeLoaded THEN s
    ELSE LET startPositions == environments(env).start
         IN [s EXCEPT !.agent = startPositions[1],
                      !.trajectory = <<startPositions[1]>>,
                      !.rewardHistory = <<>>]

\* initializeSimulation without the setRewardHistory([]) of line 386
initializeSimulationKeepsRewards(s, env) ==
    IF ~s.threeLoaded THEN s
    ELSE LET startPositions == environments(env).start
         IN [s EXCEPT !.agent = startPositions[1],
                      !.trajectory = <<startPositions[1]>>,
                      !.currentStep = 0,
                      !.metrics = [totalReward |-> 0, steps |-> 0]]

initializeSimulation(s, env) ==
    IF ~s.threeLoaded THEN s
    ELSE LET startPositions == environments(env).start
         IN [s EXCEPT !.agent = startPositions[1],
                      !.trajectory = <<startPositions[1]>>,
                      !.currentStep = 0,
                      !.metrics = [totalReward |-> 0, steps |-> 0],
                      !.rewardHistory = <<>>]

(***************************************************************************)
(* handleReset, lines 459-464.                                             *)
(***************************************************************************)
handleReset(s, env) ==
    initializeSimulation(
        [s EXCEPT !.isRunning = FALSE, !.currentEpisode = 1, !.stepsPerEpisode = <<>>],
        env)

(***************************************************************************)
(* Action selection of simulationStep, lines 399-402.                      *)
(***************************************************************************)
\* policy.values[stateIndex]: undefined past the end of the array
ValueAt(values, stateIndex) ==
    IF stateIndex + 1 <= Len(values.a) THEN values.a[stateIndex + 1] ELSE Undefined

RECURSIVE MaxOf(_)
\* Math.max(...a) of a non-empty array of numbers
MaxOf(a) == IF Len(a) = 1 THEN a[1] ELSE Max(a[1], MaxOf(Tail(a)))

\* a.lastIndexOf(v), from 0; -1 when v is not in a
lastIndexOf(a, v) ==
    IF \E i \in 1 .. Len(a) : a[i] = v
    THEN (CHOOSE i \in 1 .. Len(a) : a[i] = v /\ \A j \in (i + 1) .. Len(a) : a[j] # v) - 1
    ELSE -1

\* a.indexOf(v), from 0; -1 when v is not in a
IndexOf(a, v) ==
    IF \E i \in 1 .. Len(a) : a[i] = v
    THEN (CHOOSE i \in 1 .. Len(a) : a[i] = v /\ \A j \in 1 .. (i - 1) : a[j] # v) - 1
    ELSE -1

\* line 402.  -1 stands for "no entry of the action table": Math.max() of an
\* empty array is -Infinity, which indexOf does not find, and spreading a
\* truthy value that is not iterable raises a TypeError.
ActionIndex(qValues, rnd) ==
    IF ~Truthy(qValues) THEN rnd
    ELSE IF ~IsArray(qValues) THEN -1
    ELSE IF qValues.a = <<>> THEN -1
    ELSE IndexOf(qValues.a, MaxOf(qValues.a))

\* the state index and the looked-up vector of lines 399-401
QValuesOf(s) ==
    LET envConfig == environments(s.selectedEnvironment)
        stateIndex == s.agent[2] * envConfig.size.x + s.agent[1]
    IN ValueAt(s.policy.values, stateIndex)

\* How a call of simulationStep ends: the early returns of lines 391 and 397,
\* the TypeError of line 410 (destructuring actions[actionIndex] when it is
\* undefined), or a completed step.
StepResult(s, rnd) ==
    IF s.policy = NoPolicy \/ ~s.threeLoaded THEN "noPolicy"
    ELSE IF s.agent = NoAgent THEN "noAgent"
    ELSE IF ActionIndex(QValuesOf(s), rnd) \in 0 .. 3 THEN "stepped"
    ELSE "threw"

\* the step with a grid that wraps round at its edges instead of clamping
applyStepWrapping(s, qValues, rnd) ==
    LET envConfig == environments(s.selectedEnvironment)
        currentState == s.agent
        actionIndex == ActionIndex(qValues, rnd)
        d == actions(actionIndex)
        newX == (currentState[1] + d[1]) % envConfig.size.x
        newZ == (currentState[2] + d[2]) % envConfig.size.y
        isObstacle == <<newX, newZ>> \in envConfig.obstacles
        goalReached == <<newX, newZ>> \in envConfig.goals
        reward == IF goalReached THEN 1000 ELSE IF isObstacle THEN -100 ELSE -1
        moved == [s EXCEPT
                    !.agent = IF isObstacle THEN currentState ELSE <<newX, newZ>>,
                    !.trajectory = IF isObstacle THEN @ ELSE Append(@, <<newX, newZ>>),
                    !.metrics = [steps |-> @.steps + 1, totalReward |-> @.totalReward + reward],
                    !.rewardHistory = Append(@, reward),
                    !.currentStep = @ + 1]
    IN IF goalReached \/ s.metrics.steps > StepCap
       THEN [moved EXCEPT
               !.stepsPerEpisode = IF goalReached THEN Append(@, s.metrics.steps + 1) ELSE @,
               !.isRunning = FALSE,
               !.timers = Append(@, [goalReached |-> goalReached,
                                     env |-> s.selectedEnvironment])]
       ELSE moved

\* the step without the isObstacle test of line 417: the agent moves into any cell
applyStepThroughObstacles(s, qValues, rnd) ==
    LET envConfig == environments(s.selectedEnvironment)
        currentState == s.agent
        actionIndex == ActionIndex(qValues, rnd)
        d == actions(actionIndex)
        newX == Max(0, Min(envConfig.size.x - 1, currentState[1] + d[1]))
        newZ == Max(0, Min(envConfig.size.y - 1, currentState[2] + d[2]))
        isObstacle == <<newX, newZ>> \in envConfig.obstacles
        goalReached == <<newX, newZ>> \in envConfig.goals
        reward == IF goalReached THEN 1000 ELSE -1
        moved == [s EXCEPT
                    !.agent = <<newX, newZ>>,
                    !.trajectory = Append(@, <<newX, newZ>>),
                    !.metrics = [steps |-> @.steps + 1, totalReward |-> @.totalReward + reward],
                    !.rewardHistory = Append(@, reward),
                    !.currentStep = @ + 1]
    IN IF goalReached \/ s.metrics.steps > StepCap
       THEN [moved EXCEPT
               !.stepsPerEpisode = IF goalReached THEN Append(@, s.metrics.steps + 1) ELSE @,
               !.isRunning = FALSE,
               !.timers = Append(@, [goalReached |-> goalReached,
                                     env |-> s.selectedEnvironment])]
       ELSE moved

\* the step without the goal reward of line 424
applyStepWithoutGoalReward(s, qValues, rnd) ==
    LET envConfig == environments(s.selectedEnvironment)
        currentState == s.agent
        actionIndex == ActionIndex(qValues, rnd)
        d == actions(actionIndex)
        newX == Max(0, Min(envConfig.size.x - 1, currentState[1] + d[1]))
        newZ == Max(0, Min(envConfig.size.y - 1, currentState[2] + d[2]))
        isObstacle == <<newX, newZ>> \in envConfig.obstacles
        goalReached == <<newX, newZ>> \in envConfig.goals
        reward == IF isObstacle THEN -100 ELSE -1
        moved == [s EXCEPT
                    !.agent = IF isObstacle THEN currentState ELSE <<newX, newZ>>,
                    !.trajectory = IF isObstacle THEN @ ELSE Append(@, <<newX, newZ>>),
                    !.metrics = [steps |-> @.steps + 1, totalReward |-> @.totalReward + reward],
                    !.rewardHistory = Append(@, reward),
                    !.currentStep = @ + 1]
    IN IF goalReached \/ s.metrics.steps > StepCap
       THEN [moved EXCEPT
               !.stepsPerEpisode = IF goalReached THEN Append(@, s.metrics.steps + 1) ELSE @,
               !.isRunning = FALSE,
               !.timers = Append(@, [goalReached |-> goalReached,
                                     env |-> s.selectedEnvironment])]
       ELSE moved

\* the step with setTrajectory outside the else of lines 419-423: a collision
\* appends the cell the agent stayed in
applyStepTracingCollisions(s, qValues, rnd) ==
    LET envConfig == environments(s.selectedEnvironment)
        currentState == s.agent
        actionIndex == ActionIndex(qValues, rnd)
        d == actions(actionIndex)
        newX == Max(0, Min(envConfig.size.x - 1, currentState[1] + d[1]))
        newZ == Max(0, Min(envConfig.size.y - 1, currentState[2] + d[2]))
        isObstacle == <<newX, newZ>> \in envConfig.obstacles
        goalReached == <<newX, newZ>> \in envConfig.goals
        reward == IF goalReached THEN 1000 ELSE IF isObstacle THEN -100 ELSE -1
        moved == [s EXCEPT
                    !.agent = IF isObstacle THEN currentState ELSE <<newX, newZ>>,
                    !.trajectory = Append(@, IF isObstacle THEN currentState ELSE <<newX, newZ>>),
                    !.metrics = [steps |-> @.steps + 1, totalReward |-> @.totalReward + reward],
                    !.rewardHistory = Append(@, reward),
                    !.currentStep = @ + 1]
    IN IF goalReached \/ s.metrics.steps > StepCap
       THEN [moved EXCEPT
               !.stepsPerEpisode = IF goalReached THEN Append(@, s.metrics.steps + 1) ELSE @,
               !.isRunning = FALSE,
               !.timers = Append(@, [goalReached |-> goalReached,
                                     env |-> s.selectedEnvironment])]
       ELSE moved

(***************************************************************************)
(* Lines 402-438 of simulationStep: the step itself, for the vector qValues*)
(* looked up at line 401.  rnd is the value Math.random gives.             *)
(* metrics.steps of lines 430-431 is the value of the render that made the *)
(* closure, which is the state the step starts from.                       *)
(***************************************************************************)
applyStep(s, qValues, rnd) ==
    LET envConfig == environments(s.selectedEnvironment)
        currentState == s.agent
        actionIndex == ActionIndex(qValues, rnd)
        d == actions(actionIndex)
        newX == Max(0, Min(envConfig.size.x - 1, currentState[1] + d[1]))
        newZ == Max(0, Min(envConfig.size.y - 1, currentState[2] + d[2]))
        isObstacle == <<newX, newZ>> \in envConfig.obstacles
        goalReached == <<newX, newZ>> \in envConfig.goals
        reward == IF goalReached THEN 1000 ELSE IF isObstacle THEN -100 ELSE -1
        moved == [s EXCEPT
                    !.agent = IF isObstacle THEN currentState ELSE <<newX, newZ>>,
                    !.trajectory = IF isObstacle THEN @ ELSE Append(@, <<newX, newZ>>),
                    !.metrics = [steps |-> @.steps + 1, totalReward |-> @.totalReward + reward],
                    !.rewardHistory = Append(@, reward),
                    !.currentStep = @ + 1]
    IN IF goalReached \/ s.metrics.steps > StepCap
       THEN [moved EXCEPT
               !.stepsPerEpisode = IF goalReached THEN Append(@, s.metrics.steps + 1) ELSE @,
               !.isRunning = FALSE,
               !.timers = Append(@, [goalReached |-> goalReached,
                                     env |-> s.selectedEnvironment])]
       ELSE moved

\* simulationStep without the !policy test of line 391: an absent policy
\* falls through to the random action of line 402
simulationStepWithoutPolicyGuard(s, rnd) ==
    IF ~s.threeLoaded \/ s.agent = NoAgent THEN s
    ELSE IF s.policy = NoPolicy THEN applyStep(s, Undefined, rnd)
    ELSE IF StepResult(s, rnd) # "stepped" THEN s
    ELSE applyStep(s, QValuesOf(s), rnd)

(***************************************************************************)
(* simulationStep, lines 390-439.                                          *)
(***************************************************************************)
simulationStep(s, rnd) ==
    IF StepResult(s, rnd) # "stepped" THEN s
    ELSE applyStep(s, QValuesOf(s), rnd)

(***************************************************************************)
(* The callback of the setTimeout of lines 433-437.  t is the closure: the *)
(* goalReached of the step that scheduled it and the initializeSimulation  *)
(* of that render.                                                         *)
(***************************************************************************)
restartCallback(s, t) ==
    LET e == initializeSimulation([s EXCEPT !.currentEpisode = @ + 1], t.env)
    IN IF t.goalReached THEN [e EXCEPT !.isRunning = TRUE] ELSE e

(***************************************************************************)
(* The re-render after a handler.  animate (lines 441-457) is re-created   *)
(* when isRunning, simulationSpeed or simulationStep changes; simulationStep*)
(* (line 439) when policy, selectedEnvironment, metrics.steps or           *)
(* initializeSimulation changes; initializeSimulation (line 388) when      *)
(* selectedEnvironment or createQValueVisualization (line 361: policy,     *)
(* selectedEnvironment, showQValues) changes.                              *)
(***************************************************************************)
AnimateDeps(s) ==
    <<s.isRunning, s.simulationSpeed, s.policy, s.selectedEnvironment,
      s.metrics.steps, s.showQValues, s.threeLoaded>>

\* The effect of lines 476-488 runs again when animate changed: it calls
\* initializeScene (lines 213-250), which installs a new, empty THREE.Scene
\* in sceneRef.  newPolicy: setPolicy was given a freshly parsed object.
SceneEffect(prev, next, newPolicy) ==
    IF next.threeLoaded /\ (newPolicy \/ AnimateDeps(prev) # AnimateDeps(next))
    THEN [next EXCEPT !.agent = NoAgent]
    ELSE next

\* The effect of lines 490-494 runs after it when selectedEnvironment or
\* threeLoaded changed: handleReset of the new render, and the re-render
\* that handleReset's updates cause.
Commit(prev, next, newPolicy) ==
    LET a == SceneEffect(prev, next, newPolicy)
    IN IF a.threeLoaded /\ (prev.selectedEnvironment # a.selectedEnvironment
                            \/ prev.threeLoaded # a.threeLoaded)
       THEN SceneEffect(a, handleReset(a, a.selectedEnvironment), FALSE)
       ELSE a

(***************************************************************************)
(* Policy files.  JSONparse gives what JSON.parse (line 539) returns for   *)
(* each text the model uploads; SyntaxError stands for the exception.      *)
(***************************************************************************)
SyntaxError == [k |-> "SyntaxError"]

RejectedTexts ==
    {"not json",
     "null",
     "{\"type\":\"\",\"values\":[[0,0,0,1]]}",
     "{\"type\":\"q_table\",\"values\":7}",
     "{\"values\":[[0,0,0,1]]}"}

AcceptedTexts ==
    {"{\"type\":\"q_table\",\"values\":[[0,0,0,1]]}",
     "{\"type\":\"q_table\",\"values\":[[5,5,0,0]]}",
     "{\"type\":\"q_table\",\"values\":[]}",
     "{\"type\":\"q_table\",\"values\":[[]]}",
     "{\"type\":\"dqn\",\"values\":[[0,1,0,0]]}",
     "{\"type\":1,\"values\":[]}"}

PolicyTexts == RejectedTexts \cup AcceptedTexts

JSONparse(text) ==
    CASE text = "not json" -> SyntaxError
      [] text = "null" -> Null
      [] text = "{\"type\":\"\",\"values\":[[0,0,0,1]]}" ->
           Obj(Str(""), Arr(<<Arr(<<0, 0, 0, 1>>)>>))
      [] text = "{\"type\":\"q_table\",\"values\":7}" ->
           Obj(Str("q_table"), Num(7))
      [] text = "{\"values\":[[0,0,0,1]]}" ->
           Obj(Undefined, Arr(<<Arr(<<0, 0, 0, 1>>)>>))
      [] text = "{\"type\":\"q_table\",\"values\":[[0,0,0,1]]}" ->
           Obj(Str("q_table"), Arr(<<Arr(<<0, 0, 0, 1>>)>>))
      [] text = "{\"type\":\"q_table\",\"values\":[[5,5,0,0]]}" ->
           Obj(Str("q_table"), Arr(<<Arr(<<5, 5, 0, 0>>)>>))
      [] text = "{\"type\":\"q_table\",\"values\":[]}" ->
           Obj(Str("q_table"), Arr(<<>>))
      [] text = "{\"type\":\"q_table\",\"values\":[[]]}" ->
           Obj(Str("q_table"), Arr(<<Arr(<<>>)>>))
      [] text = "{\"type\":\"dqn\",\"values\":[[0,1,0,0]]}" ->
           Obj(Str("dqn"), Arr(<<Arr(<<0, 1, 0, 0>>)>>))
      [] text = "{\"type\":1,\"values\":[]}" ->
           Obj(Num(1), Arr(<<>>))

\* the test of line 540 without its uploadedPolicy.type conjunct
UploadResultIgnoresType(text) ==
    LET uploadedPolicy == JSONparse(text)
    IN IF uploadedPolicy.k # "object" THEN "parseError"
       ELSE IF IsArray(uploadedPolicy.values) THEN "accepted" ELSE "invalidFormat"

\* How reader.onload (lines 537-549) ends for a file's text: "parseError" is
\* the catch branch (JSON.parse threw, or the parsed value is null and
\* reading its type threw), "invalidFormat" the else branch of line 543.
UploadResult(text) ==
    LET uploadedPolicy == JSONparse(text)
    IN IF uploadedPolicy.k # "object" THEN "parseError"
       ELSE IF Truthy(uploadedPolicy.type) /\ IsArray(uploadedPolicy.values)
            THEN "accepted"
            ELSE "invalidFormat"

\* reader.onload of handleFileUpload, lines 537-549
handleFileUpload(s, text) ==
    IF UploadResult(text) = "accepted"
    THEN handleReset([s EXCEPT !.policy = JSONparse(text)], s.selectedEnvironment)
    ELSE s

\* the values the speed slider of lines 615-623 is moved between
Speeds == {1, 2}

(***************************************************************************)
(* The Dashboard component, lines 61-141, as far as it reads rewardHistory.*)
(***************************************************************************)
\* a reward history that adds up a step at a time without carrying the sum
cumulativeRewardWithoutCarry(history) == history

RECURSIVE reduceFrom(_, _, _)
\* the reduce of lines 62-65 from the callback's call for index (from 0) on:
\* acc.push((acc[index - 1] || 0) + reward)
reduceFrom(acc, history, index) ==
    IF index >= Len(history) THEN acc
    ELSE LET previous == IF index - 1 >= 0 /\ index - 1 < Len(acc) THEN acc[index] ELSE 0
         IN reduceFrom(Append(acc, previous + history[index + 1]), history, index + 1)

\* cumulativeReward of lines 62-65
cumulativeReward(history) == reduceFrom(<<>>, history, 0)

\* n.toFixed(2) of a number given in hundredths: sign, integer digits, two decimals
toFixed2(n) ==
    [negative |-> n < 0,
     units |-> (IF n < 0 THEN -n ELSE n) \div 100,
     hundredths |-> (IF n < 0 THEN -n ELSE n) % 100]

\* the value of the "Total Reward" card, line 120
totalRewardCard(history) ==
    LET c == cumulativeReward(history)
    IN toFixed2(IF c = <<>> THEN 0 ELSE c[Len(c)])

(***************************************************************************)
(* Actions: one per event the component serves.                            *)
(***************************************************************************)
\* the history variable after a handler was served
Served(op, result, arg) ==
    call' = [op |-> op, result |-> result, arg |-> arg, stepsBefore |-> metrics.steps,
             rnd |-> -1, actionIndex |-> -1]

\* the history variable after a handler that may call simulationStep: rnd is
\* the value of Math.floor(Math.random() * 4), had line 402 asked for it
ServedStep(op, result, rnd) ==
    call' = [op |-> op, result |-> result, arg |-> "", stepsBefore |-> metrics.steps,
             rnd |-> rnd,
             actionIndex |-> IF result = "stepped" THEN ActionIndex(QValuesOf(Cur), rnd) ELSE -1]

\* loadThreeJS resolved, lines 466-474: the first render with threeLoaded,
\* whose effects build the scene and call handleReset.
ThreeLoaded ==
    /\ ~threeLoaded
    /\ Becomes(Commit(Cur, [Cur EXCEPT !.threeLoaded = TRUE], FALSE))
    /\ Served("threeLoaded", "ok", "")

\* a Play button that is not disabled while no policy is loaded
PlayWithoutPolicy ==
    /\ threeLoaded /\ ~isRunning
    /\ Becomes(Commit(Cur, [Cur EXCEPT !.isRunning = TRUE], FALSE))
    /\ Served("play", "ok", "")

\* Play button, lines 582-589 (disabled while running or without a policy)
Play ==
    /\ threeLoaded /\ ~isRunning /\ policy # NoPolicy
    /\ Becomes(Commit(Cur, [Cur EXCEPT !.isRunning = TRUE], FALSE))
    /\ Served("play", "ok", "")

\* Pause button, lines 590-597 (disabled while not running)
Pause ==
    /\ threeLoaded /\ isRunning
    /\ Becomes(Commit(Cur, [Cur EXCEPT !.isRunning = FALSE], FALSE))
    /\ Served("pause", "ok", "")

\* a Step button whose handler calls simulationStep() whether running or not
StepButtonWhileRunning ==
    /\ threeLoaded
    /\ \E rnd \in RandomActions :
         /\ Becomes(Commit(Cur, simulationStep(Cur, rnd), FALSE))
         /\ ServedStep("stepButton", StepResult(Cur, rnd), rnd)

\* Step button, lines 598-605: the handler !isRunning && simulationStep().
\* The button's disabled attribute (isRunning || !policy) withholds exactly
\* the clicks that the handler's own guards (the && and line 391) turn into
\* no-ops, so the handler is served in every state.
StepButton ==
    /\ threeLoaded
    /\ \E rnd \in RandomActions :
         /\ Becomes(Commit(Cur, IF isRunning THEN Cur ELSE simulationStep(Cur, rnd), FALSE))
         /\ ServedStep("stepButton", IF isRunning THEN "running" ELSE StepResult(Cur, rnd), rnd)

\* A frame of animate (lines 441-457) in which the step interval has passed
AnimateTick ==
    /\ threeLoaded /\ isRunning
    /\ \E rnd \in RandomActions :
         /\ Becomes(Commit(Cur, simulationStep(Cur, rnd), FALSE))
         /\ ServedStep("animate", StepResult(Cur, rnd), rnd)

\* a Reset button that also calls setPolicy(null)
ResetDropsPolicy ==
    /\ threeLoaded
    /\ Becomes(Commit(Cur, [handleReset(Cur, selectedEnvironment) EXCEPT !.policy = NoPolicy], FALSE))
    /\ Served("handleReset", "ok", "")

\* Reset button, lines 606-612
Reset ==
    /\ threeLoaded
    /\ Becomes(Commit(Cur, handleReset(Cur, selectedEnvironment), FALSE))
    /\ Served("handleReset", "ok", "")

\* speed slider, line 621
SetSpeed ==
    /\ threeLoaded
    /\ \E v \in Speeds \ {simulationSpeed} :
         Becomes(Commit(Cur, [Cur EXCEPT !.simulationSpeed = v], FALSE))
    /\ Served("setSpeed", "ok", "")

\* environment selector, line 631
SelectEnvironment ==
    /\ threeLoaded
    /\ \E e \in EnvironmentIds \ {selectedEnvironment} :
         Becomes(Commit(Cur, [Cur EXCEPT !.selectedEnvironment = e], FALSE))
    /\ Served("selectEnvironment", "ok", "")

\* "Show Best Action" checkbox, line 659
ToggleQValues ==
    /\ threeLoaded
    /\ Becomes(Commit(Cur, [Cur EXCEPT !.showQValues = ~@], FALSE))
    /\ Served("toggleQValues", "ok", "")

\* a policy file was chosen and read, lines 533-551
UploadPolicy ==
    /\ threeLoaded
    /\ \E text \in PolicyTexts :
         /\ Becomes(Commit(Cur, handleFileUpload(Cur, text), UploadResult(text) = "accepted"))
         /\ Served("upload", UploadResult(text), text)

\* Dashboard button, line 676
OpenDashboard ==
    /\ threeLoaded /\ ~showDashboard
    /\ Becomes(Commit(Cur, [Cur EXCEPT !.showDashboard = TRUE], FALSE))
    /\ Served("openDashboard", "ok", "")

\* the Dashboard's Close button, lines 97 and 707
CloseDashboard ==
    /\ threeLoaded /\ showDashboard
    /\ Becomes(Commit(Cur, [Cur EXCEPT !.showDashboard = FALSE], FALSE))
    /\ Served("closeDashboard", "ok", "")

\* the oldest pending timeout of line 433 fires
RestartTimer ==
    /\ timers # <<>>
    /\ Becomes(Commit(Cur, restartCallback([Cur EXCEPT !.timers = Tail(@)], Head(timers)), FALSE))
    /\ Served("restartTimer", "ok", "")

Next ==
    \/ ThreeLoaded
    \/ Play
    \/ Pause
    \/ StepButton
    \/ AnimateTick
    \/ Reset
    \/ SetSpeed
    \/ SelectEnvironment
    \/ ToggleQValues
    \/ UploadPolicy
    \/ OpenDashboard
    \/ CloseDashboard

(***************************************************************************)
(* SpecWithRestart is the whole component: every event, the timeout of line*)
(* 433 included.  Under it no timeout is ever pending (NoRestartPending is *)
(* an invariant): a completed step changes metrics.steps, so the re-render *)
(* re-creates animate and the scene effect installs an empty scene; agent_0*)
(* comes back only through initializeSimulation, at the start cell with    *)
(* metrics.steps = 0 (AgentOnlyAtStart), and no goal is one move from a    *)
(* start cell.  RestartTimer is therefore never enabled, and Spec, which   *)
(* leaves it out, has the same reachable states and the same behaviours.   *)
(***************************************************************************)
SpecWithRestart == Init /\ [][Next \/ RestartTimer]_vars

Spec == Init /\ [][Next]_vars

(***************************************************************************)
(* FairSpec: the component with its frames arriving.  animate re-arms      *)
(* requestAnimationFrame on every frame (line 444), so while isRunning is  *)
(* true a frame whose step interval has passed keeps coming: AnimateTick is*)
(* weakly fair.  No fairness is stated for what the user does.             *)
(***************************************************************************)
FairSpec == Init /\ [][Next]_vars /\ WF_vars(AnimateTick)

(***************************************************************************)
(* DashboardSpec: the Dashboard component over its rewardHistory prop.  The*)
(* component is a function of its props, so the prop is drawn from every   *)
(* history of up to MaxHistory rewards, with the counters of simulationStep*)
(* (lines 426-428) in step with it; the Dashboard button and the Close     *)
(* button show and hide it.                                                *)
(***************************************************************************)
MaxHistory == 4

\* the rewards simulationStep records, lines 415-424, in hundredths
Rewards == {-100, -1, 1000}

Histories == UNION {[1 .. n -> Rewards] : n \in 0 .. MaxHistory}

RECURSIVE SumOf(_)
\* the total that setMetrics of line 426 has added up over a history
SumOf(history) == IF history = <<>> THEN 0 ELSE history[1] + SumOf(Tail(history))

DashboardInit ==
    /\ threeLoaded = TRUE
    /\ isRunning = FALSE
    /\ simulationSpeed = 1
    /\ selectedEnvironment = "gridworld"
    /\ policy = Obj(Str("q_table"), Arr(<<>>))
    /\ showQValues = TRUE
    /\ showDashboard = FALSE
    /\ rewardHistory \in Histories
    /\ currentStep = Len(rewardHistory)
    /\ metrics = [totalReward |-> SumOf(rewardHistory), steps |-> Len(rewardHistory)]
    /\ stepsPerEpisode = <<>>
    /\ currentEpisode = 1
    /\ trajectory = << <<0, 0>> >>
    /\ agent = NoAgent
    /\ timers = <<>>
    /\ call = [op |-> "mount", result |-> "ok", arg |-> "", stepsBefore |-> 0,
               rnd |-> -1, actionIndex |-> -1]

DashboardNext ==
    \/ OpenDashboard
    \/ CloseDashboard

DashboardSpec == DashboardInit /\ [][DashboardNext]_vars

\* no setTimeout of line 433 is ever pending
NoRestartPending == timers = <<>>

\* agent_0 is in the scene only at the start cell, before the episode's first step
AgentOnlyAtStart ==
    agent # NoAgent => (agent = <<0, 0>> /\ metrics.steps = 0 /\ ~isRunning)

(***************************************************************************)
(* The run state a handler can change: everything but the history variable.*)
(***************************************************************************)
runState == <<threeLoaded, isRunning, currentStep, simulationSpeed, selectedEnvironment,
              policy, metrics, showQValues, showDashboard, rewardHistory, stepsPerEpisode,
              currentEpisode, trajectory, agent, timers>>

(***************************************************************************)
(* C5.  As claimed: a call of simulationStep with agent_0 in the scene and *)
(* no policy loaded takes a step, so rewardHistory grows by one entry and  *)
(* the step counter by one.                                                *)
(***************************************************************************)
C5_StepWithoutPolicyActs ==
    [][(call'.op = "stepButton" /\ ~isRunning /\ policy = NoPolicy /\ agent # NoAgent)
         => (Len(rewardHistory') = Len(rewardHistory) + 1
             /\ currentStep' = currentStep + 1)]_vars

\* C5, amended: a call of simulationStep with no policy loaded is a no-op,
\* whether or not agent_0 is in the scene: the agent does not move, nothing
\* is appended to rewardHistory, and no counter changes.
C5_StepWithoutPolicyIsNoOp ==
    [][(call'.op \in {"stepButton", "animate"} /\ policy = NoPolicy)
         => UNCHANGED runState]_vars

\* C5: simulationStep was called with agent_0 in the scene and no policy
C5_Witness ==
    /\ call.op = "stepButton" /\ call.result = "noPolicy"
    /\ policy = NoPolicy /\ agent # NoAgent /\ rewardHistory = <<>>

\* handleReset ran in the handler served last: the Reset button, the
\* environment effect (after a change of environment and on the first render
\* with threeLoaded), or an accepted upload
HardResetServed ==
    \/ call.op \in {"handleReset", "selectEnvironment", "threeLoaded"}
    \/ call.op = "upload" /\ call.result = "accepted"

(***************************************************************************)
(* C8.  Right after handleReset the episode number is 1, stepsPerEpisode is*)
(* empty, and the step counters and the total reward are 0.                *)
(***************************************************************************)
C8_AfterHardReset ==
    HardResetServed
        => /\ currentEpisode = 1
           /\ stepsPerEpisode = <<>>
           /\ currentStep = 0
           /\ metrics.steps = 0
           /\ metrics.totalReward = 0

\* C8: the Reset button was served in an episode that had taken a step
C8_Witness == call.op = "handleReset" /\ call.stepsBefore > 0

(***************************************************************************)
(* C9.  As claimed: after the Reset button's handleReset no policy is      *)
(* loaded.                                                                 *)
(***************************************************************************)
C9_HardResetDropsPolicy == call.op = "handleReset" => policy = NoPolicy

\* C9, amended: handleReset leaves the policy as it is; a policy loaded
\* before a hard reset is still loaded after it.
C9_HardResetKeepsPolicy ==
    [][call'.op \in {"handleReset", "selectEnvironment"} => policy' = policy]_vars

\* C9: the Reset button was served with a policy loaded
C9_Witness == call.op = "handleReset" /\ policy # NoPolicy

(***************************************************************************)
(* C10.  A policy file is accepted exactly when it parses to an object     *)
(* whose type is truthy and whose values is an array; then it becomes the  *)
(* policy.  Any other file changes nothing of the run state: the policy    *)
(* loaded before (or none), episode, step, stepsPerEpisode, isRunning and  *)
(* the agent stay as they were.                                            *)
(***************************************************************************)
C10_RejectedUploadChangesNothing ==
    [][call'.op = "upload"
         => LET uploadedPolicy == JSONparse(call'.arg)
                acceptable == /\ uploadedPolicy.k = "object"
                              /\ Truthy(uploadedPolicy.type)
                              /\ IsArray(uploadedPolicy.values)
            IN IF acceptable
               THEN call'.result = "accepted" /\ policy' = uploadedPolicy
               ELSE call'.result # "accepted" /\ UNCHANGED runState]_vars

\* C10: the file with the empty type was rejected while a policy was loaded
\* and agent_0 was in the scene
C10_Witness ==
    /\ call.op = "upload" /\ call.result = "invalidFormat"
    /\ call.arg = "{\"type\":\"\",\"values\":[[0,0,0,1]]}"
    /\ policy # NoPolicy /\ agent # NoAgent

(***************************************************************************)
(* What the claims about a step look at.                                   *)
(***************************************************************************)
\* the handler served in this step called simulationStep and the step completed
StepServed == call'.op \in {"stepButton", "animate"} /\ call'.result = "stepped"

\* where the mesh agent_0 is when simulationStep returns (lines 420-421): the
\* cell appended to the trajectory at line 422, or the cell it was in
MeshAfterStep ==
    IF Len(trajectory') > Len(trajectory) THEN trajectory'[Len(trajectory')] ELSE agent

Cells(e) == (0 .. (environments(e).size.x - 1)) \X (0 .. (environments(e).size.y - 1))

InBounds(e, pos) == pos \in Cells(e)

Clamp(v, hi) == IF v < 0 THEN 0 ELSE IF v > hi THEN hi ELSE v

\* the cell an action aims at, and that cell clamped per axis to the grid
Target(pos, a) == <<pos[1] + actions(a)[1], pos[2] + actions(a)[2]>>
Candidate(e, pos, a) ==
    <<Clamp(Target(pos, a)[1], environments(e).size.x - 1),
      Clamp(Target(pos, a)[2], environments(e).size.y - 1)>>

\* The component with agent_0 at cell pos of environment e, paused at the
\* beginning of an episode, under a policy without any vector, so that
\* simulationStep takes the action Math.random gives.
StateAt(e, pos) ==
    [threeLoaded |-> TRUE, isRunning |-> FALSE, currentStep |-> 0,
     simulationSpeed |-> 1, selectedEnvironment |-> e,
     policy |-> Obj(Str("q_table"), Arr(<<>>)),
     metrics |-> [totalReward |-> 0, steps |-> 0],
     showQValues |-> TRUE, showDashboard |-> FALSE,
     rewardHistory |-> <<>>, stepsPerEpisode |-> <<>>, currentEpisode |-> 1,
     trajectory |-> <<pos>>, agent |-> pos, timers |-> <<>>]

\* the step ended the episode: lines 430-437
EpisodeEnded(before, after) ==
    \/ after.timers # before.timers
    \/ after.stepsPerEpisode # before.stepsPerEpisode

\* no episode has ended by reaching a goal: stepsPerEpisode is always empty
NoEpisodeRecorded == stepsPerEpisode = <<>>

(***************************************************************************)
(* C11.  As claimed: with an accepted policy loaded and agent_0 in the     *)
(* scene, every call of simulationStep picks an action index in 0..3 and   *)
(* completes the step, whatever the policy's values hold.                  *)
(***************************************************************************)
C11_StepAlwaysCompletes ==
    [][(/\ call'.op \in {"stepButton", "animate"}
        /\ call'.result # "running"
        /\ policy # NoPolicy
        /\ agent # NoAgent)
         => (call'.result = "stepped" /\ call'.actionIndex \in 0 .. 3)]_vars

(***************************************************************************)
(* C12.  The agent's position is always inside the grid.  A step leaves the*)
(* agent in the cell it was in or in the cell its action aims at, clamped  *)
(* per axis and never wrapped to the opposite edge; a move off an edge that*)
(* does not land on a goal counts as a step and does not end the episode.  *)
(* C12_EveryCell states it of simulationStep for every cell and action of  *)
(* every environment, the formula of every step a run takes.               *)
(***************************************************************************)
C12_EveryCell ==
    \A e \in EnvironmentIds : \A pos \in Cells(e) : \A a \in RandomActions :
        LET before == StateAt(e, pos)
            after == simulationStep(before, a)
        IN /\ InBounds(e, after.agent)
           /\ after.agent \in {pos, Candidate(e, pos, a)}
           /\ after.metrics.steps = 1
           /\ (Target(pos, a) # Candidate(e, pos, a)
                 /\ Candidate(e, pos, a) \notin environments(e).goals)
                => ~EpisodeEnded(before, after) /\ after.isRunning = before.isRunning

C12_PositionStaysInBounds ==
    [][/\ C12_EveryCell
       /\ agent' # NoAgent => InBounds(selectedEnvironment', agent')
       /\ \A i \in 1 .. Len(trajectory') : InBounds(selectedEnvironment', trajectory'[i])
       /\ StepServed =>
            /\ InBounds(selectedEnvironment, MeshAfterStep)
            /\ MeshAfterStep \in {agent, Candidate(selectedEnvironment, agent, call'.actionIndex)}
            /\ metrics'.steps = metrics.steps + 1
            /\ Target(agent, call'.actionIndex) # Candidate(selectedEnvironment, agent, call'.actionIndex)
                 => /\ ~EpisodeEnded(Cur, [timers |-> timers', stepsPerEpisode |-> stepsPerEpisode'])
                    /\ isRunning' = isRunning]_vars

\* C12: a step to the left from the start cell was served: the move was
\* clamped, the agent is still in column 0, and the episode goes on
C12_Witness ==
    /\ call.op = "stepButton" /\ call.result = "stepped" /\ call.actionIndex = 2
    /\ trajectory = << <<0, 0>>, <<0, 0>> >>
    /\ metrics.steps = 1 /\ timers = <<>>

(***************************************************************************)
(* C13.  If the clamped candidate cell of a step is an obstacle, the agent *)
(* stays where it was, the reward is -1.0 and the episode does not end by  *)
(* goal; the agent is never in an obstacle cell.  C13_EveryCell states it  *)
(* of simulationStep for every cell and action of every environment.       *)
(***************************************************************************)
C13_EveryCell ==
    \A e \in EnvironmentIds : \A pos \in Cells(e) : \A a \in RandomActions :
        LET before == StateAt(e, pos)
            after == simulationStep(before, a)
        IN Candidate(e, pos, a) \in environments(e).obstacles
             => /\ after.agent = pos
                /\ after.trajectory = before.trajectory
                /\ after.rewardHistory = <<-100>>
                /\ ~EpisodeEnded(before, after)

C13_ObstacleBlocks ==
    [][/\ C13_EveryCell
       /\ agent' # NoAgent => agent' \notin environments(selectedEnvironment').obstacles
       /\ \A i \in 1 .. Len(trajectory') :
            trajectory'[i] \notin environments(selectedEnvironment').obstacles
       /\ (StepServed /\ Candidate(selectedEnvironment, agent, call'.actionIndex)
                           \in environments(selectedEnvironment).obstacles)
            => /\ MeshAfterStep = agent
               /\ trajectory' = trajectory
               /\ rewardHistory' = Append(rewardHistory, -100)
               /\ stepsPerEpisode' = stepsPerEpisode /\ timers' = timers]_vars

\* C13: in the maze a step to the right from the start cell, towards the
\* obstacle at (1,0), was served
C13_Witness ==
    /\ call.op = "stepButton" /\ call.result = "stepped" /\ call.actionIndex = 3
    /\ selectedEnvironment = "maze"
    /\ trajectory = << <<0, 0>> >> /\ rewardHistory = <<-100>>

(***************************************************************************)
(* C14.  If the clamped candidate cell of a step is not an obstacle, the   *)
(* agent moves to it; the reward is 10.0 and the episode ends by goal      *)
(* exactly when the candidate is a goal cell, and -0.01 otherwise.  Every  *)
(* reward recorded is -1.0, -0.01 or 10.0.  No run brings the agent next to*)
(* a goal, so the goal branch is checked by C14_EveryCell, which states the*)
(* claim of simulationStep for every cell and action of every environment. *)
(***************************************************************************)
C14_EveryCell ==
    \A e \in EnvironmentIds : \A pos \in Cells(e) : \A a \in RandomActions :
        LET before == StateAt(e, pos)
            after == simulationStep(before, a)
            candidate == Candidate(e, pos, a)
        IN candidate \notin environments(e).obstacles
             => /\ after.agent = candidate
                /\ after.trajectory = <<pos, candidate>>
                /\ IF candidate \in environments(e).goals
                   THEN /\ after.rewardHistory = <<1000>>
                        /\ after.stepsPerEpisode = <<1>>
                        /\ after.timers = <<[goalReached |-> TRUE, env |-> e]>>
                   ELSE /\ after.rewardHistory = <<-1>>
                        /\ ~EpisodeEnded(before, after)

C14_FreeCellMoves ==
    [][/\ C14_EveryCell
       /\ \A i \in 1 .. Len(rewardHistory') : rewardHistory'[i] \in {-100, -1, 1000}
       /\ (StepServed /\ Candidate(selectedEnvironment, agent, call'.actionIndex)
                           \notin environments(selectedEnvironment).obstacles)
            => LET candidate == Candidate(selectedEnvironment, agent, call'.actionIndex)
                   goal == candidate \in environments(selectedEnvironment).goals
               IN /\ MeshAfterStep = candidate
                  /\ trajectory' = Append(trajectory, candidate)
                  /\ rewardHistory' = Append(rewardHistory, IF goal THEN 1000 ELSE -1)
                  /\ goal <=> stepsPerEpisode' # stepsPerEpisode]_vars

\* C14: in the grid world a step down from the start cell to the free cell
\* (0,1) was served
C14_Witness ==
    /\ call.op = "stepButton" /\ call.result = "stepped" /\ call.actionIndex = 1
    /\ selectedEnvironment = "gridworld"
    /\ trajectory = << <<0, 0>>, <<0, 1>> >> /\ rewardHistory = <<-1>>

(***************************************************************************)
(* C15.  With a q_table policy that has a non-empty vector for the agent's *)
(* cell, the action taken is the lowest index that holds the vector's      *)
(* maximum, whatever Math.random would have given.  C15_EveryVector states *)
(* it of the selection for every vector of up to 4 values in 0..MaxQ.      *)
(***************************************************************************)
MaxQ == 2

Vectors == UNION {[1 .. n -> 0 .. MaxQ] : n \in 1 .. 4}

\* the lowest index, from 0, of a greatest element of q
LowestArgMax(q) ==
    (CHOOSE i \in 1 .. Len(q) :
        /\ \A j \in 1 .. Len(q) : q[j] <= q[i]
        /\ \A j \in 1 .. (i - 1) : q[j] < q[i]) - 1

C15_EveryVector ==
    \A q \in Vectors : \A rnd \in RandomActions :
        ActionIndex(Arr(q), rnd) = LowestArgMax(q)

C15_GreedyLowestIndex ==
    [][/\ C15_EveryVector
       /\ (/\ StepServed
           /\ policy.type = Str("q_table")
           /\ IsArray(QValuesOf(Cur))
           /\ QValuesOf(Cur).a # <<>>)
            => call'.actionIndex = LowestArgMax(QValuesOf(Cur).a)]_vars

\* C15: a step was served under the table whose vector for the start cell
\* is 5,5,0,0: action 0 was taken though Math.random stood at 3
C15_Witness ==
    /\ call.op = "stepButton" /\ call.result = "stepped"
    /\ policy = Obj(Str("q_table"), Arr(<<Arr(<<5, 5, 0, 0>>)>>))
    /\ call.rnd = 3 /\ call.actionIndex = 0

(***************************************************************************)
(* C16.  The Step button served while isRunning is true does not call      *)
(* simulationStep and changes nothing: no position change, no reward       *)
(* appended, no step counted.                                              *)
(***************************************************************************)
C16_StepOnlyWhilePaused ==
    [][(call'.op = "stepButton" /\ isRunning)
         => (call'.result = "running" /\ UNCHANGED runState)]_vars

\* C16: the Step button was served while the simulation was running
C16_Witness ==
    /\ call.op = "stepButton" /\ call.result = "running"
    /\ isRunning /\ policy # NoPolicy

(***************************************************************************)
(* C18.  The Dashboard's cumulativeReward has one entry per reward, entry n*)
(* being the sum of the first n rewards, and its Total Reward card shows   *)
(* the sum of all rewards, 0 for an empty history.                         *)
(***************************************************************************)
C18_CumulativeSumLaw ==
    showDashboard
      => LET c == cumulativeReward(rewardHistory)
         IN /\ Len(c) = Len(rewardHistory)
            /\ \A n \in 1 .. Len(rewardHistory) : c[n] = SumOf(SubSeq(rewardHistory, 1, n))
            /\ totalRewardCard(rewardHistory) = toFixed2(SumOf(rewardHistory))
            /\ rewardHistory = <<>> => totalRewardCard(rewardHistory) = toFixed2(0)

\* C18: the Dashboard shows a history of MaxHistory rewards that begins
\* with a collision, a free step and a goal
C18_Witness ==
    /\ showDashboard /\ call.op = "openDashboard"
    /\ Len(rewardHistory) = MaxHistory
    /\ SubSeq(rewardHistory, 1, 3) = <<-100, -1, 1000>>

(***************************************************************************)
(* C19.  As claimed: under a loaded policy whose type is not "q_table" the *)
(* action of every step is the one Math.random gives, whatever the policy's*)
(* values hold.                                                            *)
(***************************************************************************)
C19_OtherTypeIsRandom ==
    [][(StepServed /\ policy.type # Str("q_table"))
         => call'.actionIndex = call'.rnd]_vars

(***************************************************************************)
(* C20.  As claimed: once initializeSimulation has put agent_0 in the      *)
(* scene, neither Play, Pause, the speed slider nor a completed step       *)
(* removes it.                                                             *)
(***************************************************************************)
C20_OnlyResetReplacesAgent ==
    [][(/\ agent # NoAgent
        /\ call'.op \in {"play", "pause", "setSpeed", "stepButton", "animate"})
         => agent' # NoAgent]_vars

(***************************************************************************)
(* C21.  initializeSimulation leaves the trajectory holding the start      *)
(* position alone.  A step that is not a collision appends exactly the cell*)
(* the agent is then in, also when a clamped move keeps it in place; a     *)
(* collision leaves the trajectory as it was and still appends a reward and*)
(* counts the step.  C21_EveryCell states it of simulationStep for every   *)
(* cell and action of every environment.                                   *)
(***************************************************************************)
C21_EveryCell ==
    \A e \in EnvironmentIds : \A pos \in Cells(e) : \A a \in RandomActions :
        LET before == StateAt(e, pos)
            after == simulationStep(before, a)
        IN /\ after.trajectory =
                IF Candidate(e, pos, a) \in environments(e).obstacles
                THEN before.trajectory
                ELSE Append(before.trajectory, Candidate(e, pos, a))
           /\ Len(after.rewardHistory) = Len(before.rewardHistory) + 1
           /\ after.currentStep = before.currentStep + 1

C21_TrajectoryGrowth ==
    [][/\ C21_EveryCell
       /\ HardResetServed' =>
            trajectory' = <<environments(selectedEnvironment').start[1]>>
       /\ StepServed =>
            /\ trajectory' =
                 IF Candidate(selectedEnvironment, agent, call'.actionIndex)
                      \in environments(selectedEnvironment).obstacles
                 THEN trajectory
                 ELSE Append(trajectory, Candidate(selectedEnvironment, agent, call'.actionIndex))
            /\ Len(rewardHistory') = Len(rewardHistory) + 1
            /\ currentStep' = currentStep + 1]_vars

\* C21: in the maze an upward step from the start cell was served, clamped
\* at the edge: the trajectory holds the start cell twice
C21_Witness ==
    /\ call.op = "stepButton" /\ call.result = "stepped" /\ call.actionIndex = 0
    /\ selectedEnvironment = "maze"
    /\ trajectory = << <<0, 0>>, <<0, 0>> >>
    /\ currentStep = 1 /\ Len(rewardHistory) = 1

(***************************************************************************)
(* C22.  As claimed: once the simulation runs with a policy loaded and its *)
(* frames keep arriving, the episode ends (a restart is scheduled and      *)
(* isRunning goes false, lines 432-433), unless the user stops it first.   *)
(***************************************************************************)
C22_RunningEpisodeEnds ==
    (isRunning /\ policy # NoPolicy) ~> (timers # <<>> \/ ~isRunning)

(***************************************************************************)
(* C23.  Whenever isRunning is true a policy is loaded.                    *)
(***************************************************************************)
C23_RunningHasPolicy == isRunning => policy # NoPolicy

\* C23: Play was served and the simulation is running
C23_Witness == call.op = "play" /\ isRunning /\ policy # NoPolicy

(***************************************************************************)
(* C24.  The per-episode counters agree in every state: metrics.steps,     *)
(* currentStep and the length of rewardHistory are equal and               *)
(* metrics.totalReward is the sum of rewardHistory.  A step raises the     *)
(* three counts by one together; initializeSimulation sets all to zero.    *)
(***************************************************************************)
CountersAgree ==
    /\ metrics.steps = currentStep
    /\ currentStep = Len(rewardHistory)
    /\ metrics.totalReward = SumOf(rewardHistory)

C24_CountersAgree ==
    [][/\ CountersAgree
       /\ CountersAgree'
       /\ StepServed => metrics'.steps = metrics.steps + 1
       /\ HardResetServed' => (metrics'.steps = 0 /\ metrics'.totalReward = 0)]_vars

\* C24: the Reset button was served after a collision step had left a
\* reward of -1.0 and a count of 1
C24_Witness ==
    /\ call.op = "handleReset" /\ call.stepsBefore = 1
    /\ rewardHistory = <<>> /\ metrics = [totalReward |-> 0, steps |-> 0]
    /\ selectedEnvironment = "maze"
====
